---- MODULE Spec2Model ----
(***************************************************************************)
(* A model of the RCON client of src/rcon.ts (class Rcon) and of the HTTP  *)
(* adapter that drives it (src/unnamed/part_000, function home).           *)
(*                                                                         *)
(* Bytes are the integers 0..255, a Uint8Array is a sequence of bytes, a   *)
(* string is a sequence of code points.  Five specifications share the     *)
(* variables:                                                              *)
(*   Spec        the client: sendCmd calls, transports, read loops,        *)
(*               disconnect(), and a server that sends frames;             *)
(*   SpecMux     readChunk dispatching frames to requests that are         *)
(*               pending under ids drawn by Init, -1 among them;           *)
(*   SpecCodec   sendData followed by the readChunk decoder, for inputs    *)
(*               drawn by Init;                                            *)
(*   SpecStream  readChunk fed a stream of frames cut into chunks;         *)
(*   SpecCarry   the same with words of zero bytes among the frames.       *)
(***************************************************************************)
EXTENDS Integers, Sequences, FiniteSets, TLC

\* ------------------------------------------------------------------ bounds

MaxCalls == 2
MaxTransports == 2
MaxChunks == 2
MaxDisconnects == 1
MaxMuxChunks == 4
MaxStreamPackets == 2
MaxCuts == 2

\* ------------------------------------------------ constants of the program

COMMAND == 2
AUTH == 3
RESPONSE_VALUE == 0
RESPONSE_AUTH == 2
FrameBuffer == <<0, 1, 0, 0>>
DefaultPort == 27015

ByteRange == 256
TwoPow16 == 65536
TwoPow24 == 16777216
REPLACEMENT == 65533

\* ------------------------------------------------------------- byte helpers

\* DataView.getInt32(off, littleEndian = true) on the bytes of view, off counted
\* from 0.  The top byte is taken signed, so the value is a 32-bit signed integer.
getInt32(view, off) ==
  LET b3 == view[off + 4]
      s3 == IF b3 >= 128 THEN b3 - ByteRange ELSE b3
  IN  view[off + 1] + ByteRange * view[off + 2] + TwoPow16 * view[off + 3] + TwoPow24 * s3

\* The four bytes DataView.setInt32(off, v, littleEndian = true) stores.
setInt32(v) ==
  LET low == v % TwoPow24
      top == (v \div TwoPow24) % ByteRange
  IN  <<low % ByteRange, (low \div ByteRange) % ByteRange, low \div TwoPow16, top>>

\* Uint8Array.prototype.slice(from): the bytes from index `from` (0-based) on.
sliceFrom(data, from) ==
  IF from >= Len(data) THEN <<>> ELSE SubSeq(data, from + 1, Len(data))

\* Uint8Array.prototype.slice(from, to), indices 0-based, `to` exclusive and clamped.
slice(data, from, to) ==
  LET hi == IF to > Len(data) THEN Len(data) ELSE to
  IN  IF from >= hi THEN <<>> ELSE SubSeq(data, from + 1, hi)

\* ------------------------------------------------------------- text <-> bytes

IsCont(b) == b >= 128 /\ b <= 191

\* UTF-8 bytes of one code point (a lone surrogate is encoded as U+FFFD).
EncodePoint(cp) ==
  LET c == IF cp >= 55296 /\ cp <= 57343 THEN REPLACEMENT ELSE cp
  IN  IF c < 128 THEN <<c>>
      ELSE IF c < 2048 THEN <<192 + (c \div 64), 128 + (c % 64)>>
      ELSE IF c < TwoPow16 THEN
        <<224 + (c \div 4096), 128 + ((c \div 64) % 64), 128 + (c % 64)>>
      ELSE <<240 + (c \div 262144), 128 + ((c \div 4096) % 64),
             128 + ((c \div 64) % 64), 128 + (c % 64)>>

\* new TextEncoder().encode(str)
RECURSIVE TextEncode(_)
TextEncode(str) ==
  IF Len(str) = 0 THEN <<>> ELSE EncodePoint(Head(str)) \o TextEncode(Tail(str))

\* The UTF-8 decoder: malformed input yields U+FFFD per maximal ill-formed subpart.
RECURSIVE Utf8Decode(_)
Utf8Decode(b) ==
  IF Len(b) = 0 THEN <<>>
  ELSE
    LET n == Len(b)
        b1 == b[1]
        lo2 == IF b1 = 224 THEN 160 ELSE IF b1 = 240 THEN 144 ELSE 128
        hi2 == IF b1 = 237 THEN 159 ELSE IF b1 = 244 THEN 143 ELSE 191
        ok2 == n >= 2 /\ b[2] >= lo2 /\ b[2] <= hi2
        ok3 == ok2 /\ n >= 3 /\ IsCont(b[3])
        ok4 == ok3 /\ n >= 4 /\ IsCont(b[4])
    IN  IF b1 < 128 THEN <<b1>> \o Utf8Decode(Tail(b))
        ELSE IF b1 >= 194 /\ b1 <= 223 THEN
          IF ok2 THEN <<(b1 - 192) * 64 + (b[2] - 128)>> \o Utf8Decode(sliceFrom(b, 2))
          ELSE <<REPLACEMENT>> \o Utf8Decode(Tail(b))
        ELSE IF b1 >= 224 /\ b1 <= 239 THEN
          IF ok3 THEN
            <<(b1 - 224) * 4096 + (b[2] - 128) * 64 + (b[3] - 128)>>
              \o Utf8Decode(sliceFrom(b, 3))
          ELSE IF ok2 THEN <<REPLACEMENT>> \o Utf8Decode(sliceFrom(b, 2))
          ELSE <<REPLACEMENT>> \o Utf8Decode(Tail(b))
        ELSE IF b1 >= 240 /\ b1 <= 244 THEN
          IF ok4 THEN
            <<(b1 - 240) * 262144 + (b[2] - 128) * 4096 + (b[3] - 128) * 64 + (b[4] - 128)>>
              \o Utf8Decode(sliceFrom(b, 4))
          ELSE IF ok3 THEN <<REPLACEMENT>> \o Utf8Decode(sliceFrom(b, 3))
          ELSE IF ok2 THEN <<REPLACEMENT>> \o Utf8Decode(sliceFrom(b, 2))
          ELSE <<REPLACEMENT>> \o Utf8Decode(Tail(b))
        ELSE <<REPLACEMENT>> \o Utf8Decode(Tail(b))

\* new TextDecoder().decode(bytes): UTF-8, a leading byte order mark is dropped.
TextDecode(b) ==
  IF Len(b) >= 3 /\ SubSeq(b, 1, 3) = <<239, 187, 191>>
  THEN Utf8Decode(sliceFrom(b, 3))
  ELSE Utf8Decode(b)

\* ------------------------------------------------------------------ sendData

\* sendData with a length field that counts one terminator byte too few.
sendBufferShortLength(id, data, packetType) ==
  LET dataBuffer == TextEncode(data)
      dataLength == Len(dataBuffer)
  IN  setInt32(dataLength + 9) \o id \o setInt32(packetType) \o dataBuffer \o <<0, 0>>

\* The buffer Rcon.sendData builds for (id, data, packetType); id is the 4-byte
\* array the caller passes, data a string.
sendBuffer(id, data, packetType) ==
  LET dataBuffer == TextEncode(data)
      dataLength == Len(dataBuffer)
  IN  setInt32(dataLength + 10) \o id \o setInt32(packetType) \o dataBuffer \o <<0, 0>>

\* --------------------------------------------------------------- the state

VARIABLES
  conn,             \* Rcon.conn: the current transport (an index of transports), 0 = undefined
  authed,           \* Rcon.authed: the current ResolvablePromise (an index of promises), 0 = undefined
  outstandingData,  \* Rcon.outstandingData: carried-over bytes, <<>> = undefined
  requests,         \* Rcon.requests: idNumber -> [data, owner]; owner is the call whose
                    \* resolve/reject the Request holds
  promises,         \* every ResolvablePromise ever constructed, by index: its state
  transports,       \* every Deno.Conn ever asked for, by index
  calls,            \* every sendCmd call: where its send() stands
  sendPromise,      \* per call: the state of the sendPromise created in send()
  dispatched,       \* history: the packets the latest readChunk decoded, in order
  nSent,            \* history: chunks the servers have sent so far
  nDisconnects,     \* history: disconnect() calls so far
  lab               \* the surroundings of the client: what Init drew as input,
                    \* what readChunk has dispatched so far (log), and in Spec the
                    \* transports whose server has sent the start of a packet and
                    \* not yet its rest (cut)

vars == <<conn, authed, outstandingData, requests, promises, transports, calls,
          sendPromise, dispatched, nSent, nDisconnects, lab>>

Calls == 1..MaxCalls
Transports == 1..MaxTransports

\* A promise of a string: pending, resolved with v, or rejected with the error e.
Pending == [s |-> "pending", v |-> <<>>, e |-> ""]
Resolved(v) == [s |-> "resolved", v |-> v, e |-> ""]
Rejected(e) == [s |-> "rejected", v |-> <<>>, e |-> e]

\* resolve/reject of a promise: only the first settlement counts.
settle(p, outcome) == IF p.s = "pending" THEN outcome ELSE p

\* The part of the state readChunk and the teardown code work on.
Client ==
  [conn |-> conn, authed |-> authed, outstandingData |-> outstandingData,
   requests |-> requests, promises |-> promises, sendPromise |-> sendPromise,
   dispatched |-> dispatched, threw |-> FALSE]

\* this.authed?.resolve() / this.authed?.reject(e)
settleAuthed(st, outcome) ==
  IF st.authed = 0 THEN st
  ELSE [st EXCEPT !.promises[st.authed] = settle(@, outcome)]

\* request.data = concat(request.data, payload)
appendData(st, id, payload) ==
  [st EXCEPT !.requests[id].data = @ \o payload]

\* request.resolve(new TextDecoder().decode(request.data)); this.requests.delete(id)
resolveRequest(st, id) ==
  LET request == st.requests[id]
  IN  [st EXCEPT
        !.sendPromise[request.owner] = settle(@, Resolved(TextDecode(request.data))),
        !.requests = [x \in (DOMAIN st.requests) \ {id} |-> st.requests[x]]]

\* The dispatch with the type looked at before the id: a RESPONSE_VALUE packet
\* with id -1 is taken for the answer to a request.
dispatchTypeFirst(st0, id, type, payload) ==
  LET st == [st0 EXCEPT !.dispatched =
                Append(@, [id |-> id, type |-> type, payload |-> payload])]
  IN  IF type = RESPONSE_AUTH /\ id = 0 THEN settleAuthed(st, Resolved(<<>>))
      ELSE IF type = RESPONSE_VALUE /\ id \in DOMAIN st.requests THEN
        IF payload = FrameBuffer THEN resolveRequest(st, id)
        ELSE appendData(st, id, payload)
      ELSE IF id = -1 THEN settleAuthed(st, Rejected("BadRconPasswordException"))
      ELSE st

\* The dispatch taking a packet that matches no request for a failed
\* authentication.
dispatchUnknownRejects(st0, id, type, payload) ==
  LET st == [st0 EXCEPT !.dispatched =
                Append(@, [id |-> id, type |-> type, payload |-> payload])]
  IN  IF id # -1 THEN
        IF type = RESPONSE_AUTH /\ id = 0 THEN settleAuthed(st, Resolved(<<>>))
        ELSE IF type = RESPONSE_VALUE /\ id \in DOMAIN st.requests THEN
          IF payload = FrameBuffer THEN resolveRequest(st, id)
          ELSE appendData(st, id, payload)
        ELSE settleAuthed(st, Rejected("BadRconPasswordException"))
      ELSE settleAuthed(st, Rejected("BadRconPasswordException"))

\* The body of readChunk's `if (len >= 10 && data.length >= len + 4)` for one packet.
dispatch(st0, id, type, payload) ==
  LET st == [st0 EXCEPT !.dispatched =
                Append(@, [id |-> id, type |-> type, payload |-> payload])]
  IN  IF id # -1 THEN
        IF type = RESPONSE_AUTH /\ id = 0 THEN settleAuthed(st, Resolved(<<>>))
        ELSE IF type = RESPONSE_VALUE THEN
          IF id \in DOMAIN st.requests THEN
            IF payload = FrameBuffer THEN resolveRequest(st, id)
            ELSE appendData(st, id, payload)
          ELSE st
        ELSE st
      ELSE settleAuthed(st, Rejected("BadRconPasswordException"))

\* Whether readChunk's test `len >= 10 && data.length >= len + 4` passes.
isFullPacket(len, dataLength) == len >= 10 /\ dataLength - 4 >= len

\* The bytes of the packet's payload: data.slice(12, 12 + len - 10).
payloadOf(data, len) == slice(data, 12, 12 + len - 10)

\* The while loop of readChunk.  data is the Uint8Array, backing the bytes of
\* data.buffer that the DataView reads (data itself for an array made by concat or
\* slice; longer than data for a chunk that is a view of the reader's buffer).
\* getInt32 past the end of the buffer throws a RangeError.
RECURSIVE decodeLoop(_, _, _)
decodeLoop(st, data, backing) ==
  IF Len(data) = 0 THEN st
  ELSE IF Len(backing) < 4 THEN [st EXCEPT !.threw = TRUE]
  ELSE
    LET len == getInt32(backing, 0)
    IN  IF len = 0 THEN st
        ELSE IF isFullPacket(len, Len(data)) THEN
          LET id == getInt32(backing, 4)
              type == getInt32(backing, 8)
              payload == payloadOf(data, len)
              rest == sliceFrom(data, 4 + len)
          IN  decodeLoop(dispatch(st, id, type, payload), rest, rest)
        ELSE [st EXCEPT !.outstandingData = data]

\* The reader's buffer as the DataView sees it after a read of chunk into it: the
\* chunk, then what earlier reads left behind.  buf stands for the first bytes of
\* the buffer iterateReader allocates once and reuses for every read.
afterRead(buf, chunk) ==
  IF Len(chunk) >= Len(buf) THEN chunk ELSE chunk \o sliceFrom(buf, Len(chunk))

\* Rcon.readChunk(chunk), chunk being a view of the reader's buffer buf.
readChunk(st0, chunk, buf) ==
  LET st == [st0 EXCEPT !.dispatched = <<>>]
  IN  IF st.outstandingData # <<>> THEN
        LET data == st.outstandingData \o chunk
        IN  decodeLoop([st EXCEPT !.outstandingData = <<>>], data, data)
      ELSE decodeLoop(st, chunk, afterRead(buf, chunk))

\* ------------------------------------------------------------------ teardown

\* new Map(): no request
NoRequests == [x \in {} |-> [data |-> <<>>, owner |-> 0]]

\* this.requests.forEach((request) => request.reject(e)); this.requests.clear()
rejectAll(st, e) ==
  LET owners == {st.requests[x].owner : x \in DOMAIN st.requests}
  IN  [st EXCEPT
        !.sendPromise = [c \in DOMAIN st.sendPromise |->
                           IF c \in owners THEN settle(st.sendPromise[c], Rejected(e))
                           ELSE st.sendPromise[c]],
        !.requests = NoRequests]

\* The finally block without the test `this.conn === conn`.
readFinallyAlways(st, t) ==
  LET rejected == settleAuthed(st, Rejected("RconConnectionClosedException"))
  IN  rejectAll([rejected EXCEPT !.conn = 0, !.authed = 0],
                "RconConnectionClosedException")

\* The finally block of Rcon.read() for the loop that captured transport t.
readFinally(st, t) ==
  IF st.conn = t THEN
    LET rejected == settleAuthed(st, Rejected("RconConnectionClosedException"))
    IN  rejectAll([rejected EXCEPT !.conn = 0, !.authed = 0],
                  "RconConnectionClosedException")
  ELSE st

\* disconnect() rejecting as the read loop does, and keeping the entries.
disconnectKeepsEntries(st) ==
  [rejectAll([st EXCEPT !.conn = 0, !.authed = 0], "read EOF")
     EXCEPT !.requests = st.requests]

\* Rcon.disconnect(), but for the close() of the transport.
disconnectClient(st) ==
  rejectAll([st EXCEPT !.conn = 0, !.authed = 0], "read EOF")

Install(st) ==
  /\ conn' = st.conn
  /\ authed' = st.authed
  /\ outstandingData' = st.outstandingData
  /\ requests' = st.requests
  /\ promises' = st.promises
  /\ sendPromise' = st.sendPromise
  /\ dispatched' = st.dispatched

\* ------------------------------------------------------- transports and calls

NewTransport ==
  [state |-> "opening", fault |-> "", late |-> FALSE, loop |-> "none",
   authWritten |-> 0]

IdleCall == [pc |-> "idle", cmd |-> <<>>, id |-> <<>>, awaiting |-> 0, t |-> 0,
             wt |-> 0, err |-> ""]

\* The commands the callers send and the ids crypto.getRandomValues may draw.
Commands == {<<115>>}
IdBytes == {<<1, 0, 0, 0>>, <<2, 0, 0, 0>>}

\* Errors of Deno.connect and of Deno.Conn.write.
OpenErrors == {"ConnectionRefused", "ConnectionReset", "TimedOut"}
AuthWriteErrors == {"ConnectionReset", "BrokenPipe"}
WriteErrors == {"BrokenPipe"}

\* The catch block classifying only a refused connection.
connectCatchRefusedOnly(err) ==
  IF err = "ConnectionRefused" THEN "BadIpException" ELSE err

\* The catch block of Rcon.connect(): what it throws for the error err.
connectCatch(err) ==
  IF err = "ConnectionRefused" \/ err = "ConnectionReset" THEN "BadIpException" ELSE err

\* What the promise returned by sendCmd has come to.
Outcome(c) ==
  IF calls[c].pc = "done" THEN Rejected(calls[c].err)
  ELSE IF calls[c].pc = "waiting" THEN sendPromise[c]
  ELSE Pending

\* The statusCode of the body home() answers with, for what `await
\* rcon.sendCmd(body.command)` came to.
statusCode(outcome) ==
  IF outcome.s = "resolved" THEN 200
  ELSE IF outcome.e \in {"BadIpException", "BadRconPasswordException",
                         "RconConnectionClosedException"} THEN 400
  ELSE 500

\* connect() without the test of this.conn: every call opens a transport.
SendCmdAlwaysOpens(c, cmd) ==
  /\ calls[c].pc = "idle"
  /\ IF c = 1 THEN TRUE ELSE calls[c - 1].pc # "idle"
  /\ lab.mode = "client"
  /\ Len(transports) < MaxTransports
  /\ promises' = Append(promises, Pending)
  /\ authed' = Len(promises) + 1
  /\ transports' = Append(transports, NewTransport)
  /\ calls' = [calls EXCEPT ![c] = [@ EXCEPT !.pc = "opening", !.cmd = cmd,
                                             !.t = Len(transports) + 1]]
  /\ UNCHANGED <<conn, outstandingData, requests, sendPromise, dispatched, nSent,
                 nDisconnects, lab>>

\* sendCmd(cmd) -> send() -> connect(), up to its first await.  The calls are
\* numbered in the order they are made.
SendCmd(c, cmd) ==
  /\ calls[c].pc = "idle"
  /\ IF c = 1 THEN TRUE ELSE calls[c - 1].pc # "idle"
  /\ lab.mode = "client"
  /\ IF conn # 0 THEN
       /\ calls' = [calls EXCEPT ![c] = [@ EXCEPT !.pc = "awaitConnect", !.cmd = cmd,
                                                  !.awaiting = authed]]
       /\ UNCHANGED <<authed, promises, transports>>
     ELSE
       /\ Len(transports) < MaxTransports
       /\ promises' = Append(promises, Pending)
       /\ authed' = Len(promises) + 1
       /\ transports' = Append(transports, NewTransport)
       /\ calls' = [calls EXCEPT ![c] = [@ EXCEPT !.pc = "opening", !.cmd = cmd,
                                                  !.t = Len(transports) + 1]]
  /\ UNCHANGED <<conn, outstandingData, requests, sendPromise, dispatched, nSent,
                 nDisconnects, lab>>

\* Deno.connect resolves: this.conn = ...; void this.read(); sendData(AUTH) issues
\* its write on this.conn.
OpenDone(c) ==
  /\ calls[c].pc = "opening"
  /\ conn' = calls[c].t
  /\ transports' = [transports EXCEPT ![calls[c].t] =
                      [@ EXCEPT !.state = "open", !.loop = "running"]]
  /\ calls' = [calls EXCEPT ![c] = [@ EXCEPT !.pc = "authWrite", !.wt = calls[c].t]]
  /\ UNCHANGED <<authed, outstandingData, requests, promises, sendPromise, dispatched,
                 nSent, nDisconnects, lab>>

\* Deno.connect rejects with err: the catch block of connect() throws, send() rejects.
OpenFail(c, err) ==
  /\ calls[c].pc = "opening"
  /\ transports' = [transports EXCEPT ![calls[c].t] = [@ EXCEPT !.state = "failed", !.fault = err]]
  /\ calls' = [calls EXCEPT ![c] = [@ EXCEPT !.pc = "done", !.err = connectCatch(err)]]
  /\ UNCHANGED <<conn, authed, outstandingData, requests, promises, sendPromise,
                 dispatched, nSent, nDisconnects, lab>>

\* this.requests.set(idNumber, new Request(resolve, reject)) of call c
registered(reqs, c, id) ==
  LET idNumber == getInt32(id, 0)
  IN  [x \in (DOMAIN reqs) \cup {idNumber} |->
         IF x = idNumber THEN [data |-> <<>>, owner |-> c] ELSE reqs[x]]

\* send() after `await this.connect()`: draws the id, registers the Request, and
\* sendData(id, data, packetType) issues its write on this.conn, if there is one.
register(c, id) ==
      /\ requests' = registered(requests, c, id)
      /\ calls' = [calls EXCEPT ![c] = [@ EXCEPT !.pc = "cmdWrite", !.id = id,
                                                 !.wt = conn, !.awaiting = 0]]

\* A write on transport t completes: the buffer is on the wire.  Of what was
\* written the model keeps the number of AUTH packets.
wrote(t, buffer) ==
  IF t = 0 \/ getInt32(buffer, 8) # AUTH THEN transports
  ELSE [transports EXCEPT ![t] = [@ EXCEPT !.authWritten = @ + 1]]

\* The AUTH write completes; connect() returns and send() goes on.
AuthWriteDone(c) ==
  /\ calls[c].pc = "authWrite"
  /\ transports' = wrote(calls[c].wt, sendBuffer(<<0, 0, 0, 0>>, lab.password, AUTH))
  /\ \E id \in IdBytes : register(c, id)
  /\ UNCHANGED <<conn, authed, outstandingData, promises, sendPromise, dispatched,
                 nSent, nDisconnects, lab>>

\* The AUTH write fails with err: the catch block of connect() throws.
AuthWriteFail(c, err) ==
  /\ calls[c].pc = "authWrite"
  /\ calls' = [calls EXCEPT ![c] = [@ EXCEPT !.pc = "done", !.wt = 0,
                                             !.err = connectCatch(err)]]
  /\ UNCHANGED <<conn, authed, outstandingData, requests, promises, transports,
                 sendPromise, dispatched, nSent, nDisconnects, lab>>

\* connect() had returned this.authed?.promise: send() goes on once it is resolved
\* (at once when there was none) and rejects with its error when it is rejected.
AwaitConnectDone(c) ==
  /\ calls[c].pc = "awaitConnect"
  /\ LET p == IF calls[c].awaiting = 0 THEN Resolved(<<>>) ELSE promises[calls[c].awaiting]
     IN  /\ p.s # "pending"
         /\ IF p.s = "resolved" THEN \E id \in IdBytes : register(c, id)
            ELSE /\ calls' = [calls EXCEPT ![c] = [@ EXCEPT !.pc = "done", !.awaiting = 0,
                                                        !.err = p.e]]
                 /\ UNCHANGED requests
  /\ UNCHANGED <<conn, authed, outstandingData, promises, transports, sendPromise,
                 dispatched, nSent, nDisconnects, lab>>

\* The catch block rejecting every request of the pending map.
rejectEveryRequest(id, e) ==
  [c \in DOMAIN sendPromise |->
     IF \E x \in DOMAIN requests : requests[x].owner = c
     THEN settle(sendPromise[c], Rejected(e)) ELSE sendPromise[c]]

\* The catch block of send(): this.requests.get(idNumber)?.reject(e)
rejectById(id, e) ==
  LET idNumber == getInt32(id, 0)
  IN  IF idNumber \in DOMAIN requests
      THEN [sendPromise EXCEPT ![requests[idNumber].owner] = settle(@, Rejected(e))]
      ELSE sendPromise

\* The command write completes; sendData(id, "", RESPONSE_VALUE) issues its write.
CmdWriteDone(c) ==
  /\ calls[c].pc = "cmdWrite"
  /\ transports' = wrote(calls[c].wt, sendBuffer(calls[c].id, calls[c].cmd, COMMAND))
  /\ calls' = [calls EXCEPT ![c] = [@ EXCEPT !.pc = "sentinelWrite", !.wt = conn]]
  /\ UNCHANGED <<conn, authed, outstandingData, requests, promises, sendPromise,
                 dispatched, nSent, nDisconnects, lab>>

\* The sentinel write completes; send() returns sendPromise.
SentinelWriteDone(c) ==
  /\ calls[c].pc = "sentinelWrite"
  /\ transports' = wrote(calls[c].wt, sendBuffer(calls[c].id, <<>>, RESPONSE_VALUE))
  /\ calls' = [calls EXCEPT ![c] = [@ EXCEPT !.pc = "waiting", !.wt = 0]]
  /\ UNCHANGED <<conn, authed, outstandingData, requests, promises, sendPromise,
                 dispatched, nSent, nDisconnects, lab>>

\* The command write or the sentinel write fails with err: the catch block rejects
\* the request registered under the id and send() returns sendPromise.  The call
\* keeps the error it caught in err.
WriteFail(c, err) ==
  /\ calls[c].pc \in {"cmdWrite", "sentinelWrite"}
  /\ calls[c].wt # 0
  /\ sendPromise' = rejectById(calls[c].id, err)
  /\ calls' = [calls EXCEPT ![c] = [@ EXCEPT !.pc = "waiting", !.wt = 0, !.err = err]]
  /\ UNCHANGED <<conn, authed, outstandingData, requests, promises, transports,
                 dispatched, nSent, nDisconnects, lab>>

\* ------------------------------------------------------ the server, the read loop

\* A well-formed packet as the server frames it: size, id, type, body, two nulls.
ServerFrame(id, type, payload) ==
  setInt32(Len(payload) + 10) \o id \o setInt32(type) \o payload \o <<0, 0>>

AuthOk == ServerFrame(<<0, 0, 0, 0>>, RESPONSE_AUTH, <<>>)
AuthBad == ServerFrame(<<255, 255, 255, 255>>, RESPONSE_AUTH, <<>>)

\* What the server of Spec may send in one chunk: the two answers to AUTH, a
\* fragment and the echoed sentinel for each id a call may draw, and the start of
\* a packet whose rest is yet to come.
\* The auth-success packet cut by the transport after eight bytes: its start,
\* and its rest, which is what the server sends next on that transport.
AuthOkStart == slice(AuthOk, 0, 8)
AuthOkRest == sliceFrom(AuthOk, 8)

ServerChunks ==
  {AuthOk, AuthBad, AuthOkStart}
    \cup {ServerFrame(id, RESPONSE_VALUE, FrameBuffer) : id \in IdBytes}

\* What the server of transport t may send next.
NextChunks(t) == IF t \in lab.cut THEN {AuthOkRest} ELSE ServerChunks

\* What the read loop of transport t does with the chunk its reader yields into
\* the buffer buf.
readTurn(t, chunk, buf) ==
  LET st == readChunk(Client, chunk, buf)
  IN  /\ Install(IF st.threw THEN readFinally(st, t) ELSE st)
      /\ transports' = [transports EXCEPT ![t] =
            [@ EXCEPT !.late = FALSE,
                      !.loop = IF st.threw THEN "threw" ELSE "running"]]

\* The first bytes of the buffer iterateReader allocates: zeros.
FreshBuf == <<0, 0, 0, 0>>

\* One turn of `for await (const chunk of iterateReader(conn)) this.readChunk(chunk)`
\* in the read() that captured transport t: the server has sent chunk and the
\* reader yields it.  After a close() only a chunk whose read had already
\* completed is still yielded.  An error thrown by readChunk leaves the loop
\* through the finally block.  The chunks the servers send are at least four bytes
\* long, so what earlier reads left in the reader's buffer is never looked at.
ReadStep(t, chunk) ==
  /\ lab.mode = "client"
  /\ t \in DOMAIN transports
  /\ transports[t].loop = "running"
  /\ transports[t].state = "open" \/ transports[t].late
  /\ nSent < MaxChunks
  /\ chunk \in NextChunks(t)
  /\ nSent' = nSent + 1
  /\ readTurn(t, chunk, FreshBuf)
  /\ lab' = [lab EXCEPT !.cut = IF chunk = AuthOkStart THEN @ \cup {t} ELSE @ \ {t}]
  /\ UNCHANGED <<calls, nDisconnects>>

\* The reader of transport t ends (the server closed the stream, the transport
\* failed, or it was closed under the reader): the finally block of read() runs.
ReadEnd(t) ==
  /\ lab.mode = "client"
  /\ t \in DOMAIN transports
  /\ transports[t].loop = "running"
  /\ ~transports[t].late
  /\ Install(readFinally(Client, t))
  /\ transports' = [transports EXCEPT ![t] = [@ EXCEPT !.loop = "ended"]]
  /\ UNCHANGED <<calls, nSent, nDisconnects, lab>>

\* this.conn?.close(): the transport is closed; late tells whether a read had
\* already completed, whose chunk the loop is still to be handed.
closeConn(late) ==
  IF conn = 0 THEN transports
  ELSE [transports EXCEPT ![conn] =
          [@ EXCEPT !.state = "closed",
                    !.late = late /\ transports[conn].loop = "running"]]

\* Rcon.disconnect()
Disconnect(late) ==
  /\ lab.mode = "client"
  /\ nDisconnects < MaxDisconnects
  /\ nDisconnects' = nDisconnects + 1
  /\ transports' = closeConn(late)
  /\ Install(disconnectClient(Client))
  /\ UNCHANGED <<calls, nSent, lab>>

\* ------------------------------------------------------------- specification

Init ==
  /\ conn = 0
  /\ authed = 0
  /\ outstandingData = <<>>
  /\ requests = NoRequests
  /\ promises = <<>>
  /\ transports = <<>>
  /\ calls = [c \in Calls |-> IdleCall]
  /\ sendPromise = [c \in Calls |-> Pending]
  /\ dispatched = <<>>
  /\ nSent = 0
  /\ nDisconnects = 0
  /\ lab = [mode |-> "client", password |-> <<112>>, cut |-> {}]

Next ==
  \/ \E c \in Calls, cmd \in Commands : SendCmd(c, cmd)
  \/ \E c \in Calls : OpenDone(c)
  \/ \E c \in Calls, err \in OpenErrors : OpenFail(c, err)
  \/ \E c \in Calls : AuthWriteDone(c)
  \/ \E c \in Calls, err \in AuthWriteErrors : AuthWriteFail(c, err)
  \/ \E c \in Calls : AwaitConnectDone(c)
  \/ \E c \in Calls : CmdWriteDone(c)
  \/ \E c \in Calls : SentinelWriteDone(c)
  \/ \E c \in Calls, err \in WriteErrors : WriteFail(c, err)
  \/ \E t \in Transports, chunk \in ServerChunks \cup {AuthOkRest} : ReadStep(t, chunk)
  \/ \E t \in Transports : ReadEnd(t)
  \/ \E late \in BOOLEAN : Disconnect(late)

Spec == Init /\ [][Next]_vars

\* ------------------------------------------------- SpecMux: the multiplexer

\* SpecMux starts where Spec can get to: one transport open and authenticating or
\* authenticated, the first k calls having registered their requests and written
\* their packets, under the ids Init draws.  The server then sends whole packets.

MuxIdBytes == {<<1, 0, 0, 0>>, <<2, 0, 0, 0>>, <<255, 255, 255, 255>>}

MuxChunks ==
  {AuthBad,
   ServerFrame(<<1, 0, 0, 0>>, RESPONSE_AUTH, <<65>>),
   ServerFrame(<<1, 0, 0, 0>>, RESPONSE_VALUE, <<195>>),
   ServerFrame(<<1, 0, 0, 0>>, RESPONSE_VALUE, <<169>>),
   ServerFrame(<<1, 0, 0, 0>>, RESPONSE_VALUE, FrameBuffer),
   ServerFrame(<<2, 0, 0, 0>>, RESPONSE_VALUE, <<66>>),
   ServerFrame(<<2, 0, 0, 0>>, RESPONSE_VALUE, FrameBuffer),
   ServerFrame(<<3, 0, 0, 0>>, RESPONSE_VALUE, FrameBuffer),
   ServerFrame(<<255, 255, 255, 255>>, RESPONSE_VALUE, FrameBuffer),
   ServerFrame(<<3, 0, 0, 0>>, RESPONSE_VALUE, <<67>>)
     \o ServerFrame(<<1, 0, 0, 0>>, RESPONSE_VALUE, <<68>>)}

\* The requests map after the calls 1..k have registered under ids[1..k], in order.
RECURSIVE registeredAll(_, _)
registeredAll(ids, k) ==
  IF k = 0 THEN NoRequests ELSE registered(registeredAll(ids, k - 1), k, ids[k])

InitMux ==
  \E k \in Calls, authResolved \in BOOLEAN :
  \E ids \in [1..k -> MuxIdBytes] :
    /\ k >= 2 => authResolved
    /\ conn = 1
    /\ authed = 1
    /\ outstandingData = <<>>
    /\ requests = registeredAll(ids, k)
    /\ promises = <<IF authResolved THEN Resolved(<<>>) ELSE Pending>>
    /\ transports = <<[NewTransport EXCEPT !.state = "open", !.loop = "running",
                                            !.authWritten = 1]>>
    /\ calls = [c \in Calls |->
                  IF c <= k
                  THEN [IdleCall EXCEPT !.pc = "waiting", !.cmd = <<115>>, !.id = ids[c],
                                        !.t = IF c = 1 THEN 1 ELSE 0]
                  ELSE IdleCall]
    /\ sendPromise = [c \in Calls |-> Pending]
    /\ dispatched = <<>>
    /\ nSent = 0
    /\ nDisconnects = 0
    /\ lab = [mode |-> "mux", log |-> <<>>, init |-> registeredAll(ids, k)]

\* The server sends chunk and the read loop of the transport hands it to readChunk;
\* lab.log collects what readChunk dispatches.
MuxRead(chunk) ==
  /\ lab.mode = "mux"
  /\ transports[1].loop = "running"
  /\ nSent < MaxMuxChunks
  /\ nSent' = nSent + 1
  /\ readTurn(1, chunk, FreshBuf)
  /\ lab' = [lab EXCEPT !.log = @ \o dispatched']
  /\ UNCHANGED <<calls, nDisconnects>>

NextMux == \E chunk \in MuxChunks : MuxRead(chunk)

SpecMux == InitMux /\ [][NextMux]_vars

\* ------------------------------------------- SpecCodec: sendData and the decoder

\* SpecCodec starts with a transport just opened (the call that opened it is
\* writing AUTH) and an (id, data, packetType) drawn by Init.  sendData builds the
\* buffer for it; the peer sends the buffer back and the read loop hands it to
\* readChunk as one chunk.

CodecIds == {<<1, 0, 0, 0>>, <<0, 0, 0, 0>>, <<255, 255, 255, 255>>,
             <<239, 190, 173, 222>>}
CodecTypes == {RESPONSE_VALUE, COMMAND, AUTH, -5, 16909060}
CodecTexts == {<<>>, <<65>>, <<65, 66, 67>>, <<233>>, <<8364, 65>>, <<0, 1, 0, 0>>}

\* The client right after OpenDone of its first call.
JustOpened ==
  /\ conn = 1
  /\ authed = 1
  /\ outstandingData = <<>>
  /\ requests = NoRequests
  /\ promises = <<Pending>>
  /\ transports = <<[NewTransport EXCEPT !.state = "open", !.loop = "running"]>>
  /\ calls = [c \in Calls |->
                IF c = 1 THEN [IdleCall EXCEPT !.pc = "authWrite", !.cmd = <<115>>,
                                               !.t = 1, !.wt = 1]
                ELSE IdleCall]
  /\ sendPromise = [c \in Calls |-> Pending]
  /\ dispatched = <<>>
  /\ nSent = 0
  /\ nDisconnects = 0

InitCodec ==
  /\ JustOpened
  /\ \E id \in CodecIds, data \in CodecTexts, type \in CodecTypes :
       lab = [mode |-> "codec", pc |-> "encode", id |-> id, data |-> data,
              type |-> type, frame |-> <<>>]

\* sendData(lab.id, lab.data, lab.type) builds its buffer.
CodecSend ==
  /\ lab.mode = "codec"
  /\ lab.pc = "encode"
  /\ lab' = [lab EXCEPT !.pc = "decode",
                        !.frame = sendBuffer(lab.id, lab.data, lab.type)]
  /\ UNCHANGED <<conn, authed, outstandingData, requests, promises, transports, calls,
                 sendPromise, dispatched, nSent, nDisconnects>>

\* The buffer comes back as one chunk and readChunk decodes it.
CodecRead ==
  /\ lab.mode = "codec"
  /\ lab.pc = "decode"
  /\ readTurn(1, lab.frame, FreshBuf)
  /\ lab' = [lab EXCEPT !.pc = "done"]
  /\ UNCHANGED <<calls, nSent, nDisconnects>>

NextCodec == CodecSend \/ CodecRead

SpecCodec == InitCodec /\ [][NextCodec]_vars

\* ------------------------------------- SpecStream: readChunk and chunk boundaries

\* SpecStream starts with one command pending under id 1 on an open transport and
\* a stream of well-formed packets drawn by Init, cut into non-empty chunks at the
\* places Init draws.  lab.buf is the start of the buffer iterateReader reads
\* every chunk into.

StreamFrames ==
  {ServerFrame(<<1, 0, 0, 0>>, RESPONSE_VALUE, <<>>),
   ServerFrame(<<1, 0, 0, 0>>, RESPONSE_VALUE, <<65>>),
   ServerFrame(<<0, 0, 0, 0>>, RESPONSE_AUTH, <<>>)}

RECURSIVE Flatten(_)
Flatten(seqs) == IF Len(seqs) = 0 THEN <<>> ELSE Head(seqs) \o Flatten(Tail(seqs))

\* stream cut at the places of cuts (each counts the bytes before the cut).
RECURSIVE CutAt(_, _, _)
CutAt(stream, cuts, from) ==
  IF cuts = {} THEN <<sliceFrom(stream, from)>>
  ELSE LET c == CHOOSE x \in cuts : \A y \in cuts : x <= y
       IN  <<slice(stream, from, c)>> \o CutAt(stream, cuts \ {c}, c)

\* The sets of at most k places to cut a stream of n bytes at.
RECURSIVE CutSets(_, _)
CutSets(n, k) ==
  IF k = 0 THEN {{}}
  ELSE CutSets(n, k - 1) \cup {cs \cup {x} : cs \in CutSets(n, k - 1), x \in 1..(n - 1)}

InitStream ==
  \E n \in 1..MaxStreamPackets :
  \E packets \in [1..n -> StreamFrames] :
  \E cuts \in CutSets(Len(Flatten(packets)), MaxCuts) :
    /\ conn = 1
    /\ authed = 1
    /\ outstandingData = <<>>
    /\ requests = registered(NoRequests, 1, <<1, 0, 0, 0>>)
    /\ promises = <<Pending>>
    /\ transports = <<[NewTransport EXCEPT !.state = "open", !.loop = "running",
                                            !.authWritten = 1]>>
    /\ calls = [c \in Calls |->
                  IF c = 1 THEN [IdleCall EXCEPT !.pc = "waiting", !.cmd = <<115>>,
                                                 !.id = <<1, 0, 0, 0>>, !.t = 1]
                  ELSE IdleCall]
    /\ sendPromise = [c \in Calls |-> Pending]
    /\ dispatched = <<>>
    /\ nSent = 0
    /\ nDisconnects = 0
    /\ lab = [mode |-> "stream", stream |-> Flatten(packets),
              chunks |-> CutAt(Flatten(packets), cuts, 0), buf |-> FreshBuf,
              log |-> <<>>]

\* The reader yields the next chunk of the stream and the loop hands it to readChunk.
StreamRead ==
  /\ lab.mode = "stream"
  /\ lab.chunks # <<>>
  /\ transports[1].loop = "running"
  /\ readTurn(1, Head(lab.chunks), lab.buf)
  /\ lab' = [lab EXCEPT !.chunks = Tail(@),
                        !.buf = slice(afterRead(lab.buf, Head(lab.chunks)), 0, 4),
                        !.log = @ \o dispatched']
  /\ UNCHANGED <<calls, nSent, nDisconnects>>

NextStream == StreamRead

SpecStream == InitStream /\ [][NextStream]_vars

\* ------------------------------------ SpecCarry: readChunk and what it keeps

\* SpecCarry is SpecStream with a server that may also send a word of four zero
\* bytes between packets, which readChunk reads as a length prefix of zero.

ZeroWord == <<0, 0, 0, 0>>

CarryFrames == StreamFrames \cup {ZeroWord}

InitCarry ==
  \E n \in 1..MaxStreamPackets :
  \E packets \in [1..n -> CarryFrames] :
  \E cuts \in CutSets(Len(Flatten(packets)), MaxCuts) :
    /\ conn = 1
    /\ authed = 1
    /\ outstandingData = <<>>
    /\ requests = registered(NoRequests, 1, <<1, 0, 0, 0>>)
    /\ promises = <<Pending>>
    /\ transports = <<[NewTransport EXCEPT !.state = "open", !.loop = "running",
                                            !.authWritten = 1]>>
    /\ calls = [c \in Calls |->
                  IF c = 1 THEN [IdleCall EXCEPT !.pc = "waiting", !.cmd = <<115>>,
                                                 !.id = <<1, 0, 0, 0>>, !.t = 1]
                  ELSE IdleCall]
    /\ sendPromise = [c \in Calls |-> Pending]
    /\ dispatched = <<>>
    /\ nSent = 0
    /\ nDisconnects = 0
    /\ lab = [mode |-> "carry", stream |-> Flatten(packets),
              chunks |-> CutAt(Flatten(packets), cuts, 0), buf |-> FreshBuf,
              log |-> <<>>]

\* The reader yields the next chunk of the stream and the loop hands it to readChunk.
CarryRead ==
  /\ lab.mode = "carry"
  /\ lab.chunks # <<>>
  /\ transports[1].loop = "running"
  /\ readTurn(1, Head(lab.chunks), lab.buf)
  /\ lab' = [lab EXCEPT !.chunks = Tail(@),
                        !.buf = slice(afterRead(lab.buf, Head(lab.chunks)), 0, 4),
                        !.log = @ \o dispatched']
  /\ UNCHANGED <<calls, nSent, nDisconnects>>

NextCarry == CarryRead

SpecCarry == InitCarry /\ [][NextCarry]_vars

\* ---------------------------------------------------------------- the claims

\* The index in log of the first sentinel packet carrying id, 0 if there is none.
FirstSentinel(log, id) ==
  LET hits == {i \in 1..Len(log) : log[i] = [id |-> id, type |-> RESPONSE_VALUE,
                                             payload |-> FrameBuffer]}
  IN  IF hits = {} THEN 0 ELSE CHOOSE i \in hits : \A j \in hits : i <= j

\* The payloads of the RESPONSE_VALUE packets carrying id among log[1..n], joined
\* in the order of arrival.
RECURSIVE Fragments(_, _, _)
Fragments(log, id, n) ==
  IF n = 0 THEN <<>>
  ELSE Fragments(log, id, n - 1)
         \o (IF log[n].id = id /\ log[n].type = RESPONSE_VALUE THEN log[n].payload
             ELSE <<>>)

\* What C1 says of the request registered under id: pending, in the map and
\* untouched by anything but its own fragments until its sentinel is dispatched,
\* and from then on resolved with the fragments dispatched before the sentinel,
\* joined in order and decoded, its entry removed.
SentinelContract(id) ==
  LET c == lab.init[id].owner
      n == FirstSentinel(lab.log, id)
  IN  IF n = 0
      THEN /\ sendPromise[c] = Pending
           /\ id \in DOMAIN requests
           /\ requests[id] = [data |-> Fragments(lab.log, id, Len(lab.log)), owner |-> c]
      ELSE /\ sendPromise[c] = Resolved(TextDecode(Fragments(lab.log, id, n - 1)))
           /\ id \notin DOMAIN requests

\* C1: a pending command with id X is resolved exactly at the sentinel packet with
\* id X, with the concatenation in arrival order of the payloads of the N >= 0
\* RESPONSE_VALUE packets with id X dispatched before it, and its entry is removed
\* from the pending map; this for every id X a command may be pending under.
C1_SentinelResolves == \A id \in DOMAIN lab.init : SentinelContract(id)

\* The same for every id but -1 (the id readChunk takes for the answer to a bad
\* password).
SentinelResolvesButMinusOne ==
  \A id \in (DOMAIN lab.init) \ {-1} : SentinelContract(id)

\* Some command was resolved with the text of two fragments that only decode
\* once joined.
SentinelReached ==
  \E c \in Calls : sendPromise[c] = Resolved(<<233>>)

\* C4: a read turn that dispatches one packet with id -1, whatever its type,
\* rejects the authentication future with BadRconPasswordException if it is
\* pending and leaves the pending map and every caller's future as they were.
C4_BadPasswordFrame ==
  [][(nSent' # nSent /\ Len(dispatched') = 1 /\ dispatched'[1].id = -1)
       => /\ requests' = requests
          /\ sendPromise' = sendPromise
          /\ authed' = authed
          /\ authed # 0 =>
               promises' = [promises EXCEPT ![authed] =
                              IF @ = Pending THEN Rejected("BadRconPasswordException")
                              ELSE @]]_vars

\* A RESPONSE_VALUE packet with id -1 was dispatched while a request holding a
\* fragment was pending, and the authentication future was rejected for the bad
\* password.
C4_Witness ==
  /\ Len(dispatched) = 1
  /\ dispatched[1].id = -1
  /\ dispatched[1].type = RESPONSE_VALUE
  /\ promises[1] = Rejected("BadRconPasswordException")
  /\ \E x \in DOMAIN requests : requests[x].data # <<>>

\* C5: disconnect() rejects the caller of every entry of the pending map whose
\* future is still unsettled with the generic "read EOF" error, and leaves the
\* pending map empty and the transport and authentication references absent.
C5_DisconnectRejectsAll ==
  [][nDisconnects' # nDisconnects
       => /\ requests' = NoRequests
          /\ conn' = 0
          /\ authed' = 0
          /\ \A x \in DOMAIN requests :
               sendPromise'[requests[x].owner] =
                 IF sendPromise[requests[x].owner] = Pending THEN Rejected("read EOF")
                 ELSE sendPromise[requests[x].owner]]_vars

\* disconnect() ran with two commands outstanding and both were rejected.
C5_Witness ==
  /\ nDisconnects = 1
  /\ \A c \in {1, 2} : Outcome(c) = Rejected("read EOF")
  /\ requests = NoRequests /\ conn = 0 /\ authed = 0

\* C6: when Deno.connect fails, the call that asked for the transport rejects
\* with BadIpException if the failure is connection-refused or connection-reset
\* and with the failure itself otherwise; no request is registered for the call,
\* the failed transport is not the client's transport, and the client holds no
\* transport unless another call has opened one.
C6_OpenFailure ==
  [][\A c \in Calls :
       (calls[c].pc = "opening" /\ calls'[c].pc = "done")
         => LET t == calls[c].t
                fault == transports'[t].fault
            IN  /\ Outcome(c)' =
                     Rejected(IF fault \in {"ConnectionRefused", "ConnectionReset"}
                              THEN "BadIpException" ELSE fault)
                /\ requests' = requests
                /\ \A x \in DOMAIN requests' : requests'[x].owner # c
                /\ sendPromise'[c] = Pending
                /\ transports'[t].state = "failed"
                /\ conn' = conn /\ conn' # t
                /\ (\A d \in Calls \ {c} : calls[d].pc = "idle") => conn' = 0]_vars

\* A call was rejected with BadIpException after a connection reset, another
\* after a failure that is neither refused nor reset, and no transport is held.
C6_Witness ==
  /\ conn = 0
  /\ requests = NoRequests
  /\ \E c \in Calls : /\ Outcome(c) = Rejected("BadIpException")
                      /\ transports[calls[c].t].fault = "ConnectionReset"
  /\ \E c \in Calls : /\ Outcome(c) = Rejected("TimedOut")
                      /\ transports[calls[c].t].fault = "TimedOut"

\* C7: while the client holds a transport, a sendCmd call opens no transport and
\* creates no authentication future but awaits the existing one, and goes on to
\* register its request only once that future is resolved; no transport ever has
\* more than one AUTH packet written on it, and has exactly one once the call
\* that opened it has gone on to send its command.
C7_ConnectIdempotent ==
  [][/\ \A c \in Calls :
          /\ (calls[c].pc = "idle" /\ calls'[c].pc # "idle" /\ conn # 0)
               => /\ Len(transports') = Len(transports)
                  /\ promises' = promises
                  /\ authed' = authed /\ conn' = conn
                  /\ calls'[c].pc = "awaitConnect"
                  /\ calls'[c].awaiting = authed
          /\ (calls[c].pc = "awaitConnect" /\ calls'[c].pc = "cmdWrite")
               => \/ calls[c].awaiting = 0
                  \/ promises[calls[c].awaiting].s = "resolved"
     /\ \A t \in DOMAIN transports' : transports'[t].authWritten <= 1
     /\ \A c \in Calls :
          (calls'[c].t # 0 /\ calls'[c].pc \in {"cmdWrite", "sentinelWrite", "waiting"})
            => transports'[calls'[c].t].authWritten = 1]_vars

\* A second call, made while the transport of the first was open, awaited the
\* authentication future and was resolved with its own response; one transport
\* was opened and one AUTH packet written.
C7_Witness ==
  /\ Len(transports) = 1
  /\ transports[1].authWritten = 1
  /\ conn = 1
  /\ calls[1].t = 1
  /\ calls[2].t = 0
  /\ Outcome(2) = Resolved(<<>>)

\* What reading the whole of lab.stream as one chunk dispatches.
WholeStream ==
  readChunk([Client EXCEPT !.outstandingData = <<>>, !.dispatched = <<>>],
            lab.stream, FreshBuf).dispatched

\* C2: however a stream of well-formed packets is cut into chunks, readChunk raises
\* no error, and once every chunk is read it has dispatched the packets that
\* reading the stream as one chunk dispatches, in the same order.
C2_ChunkIndependence ==
  /\ transports[1].loop # "threw"
  /\ lab.chunks = <<>> => lab.log = WholeStream

\* C3: the buffer sendData builds for (id, data, packetType) has the length of
\* the encoded data plus 14 and a length field of that length plus 10, and
\* readChunk decodes it into one packet with the same id, type and payload,
\* keeping no byte back.
C3_EncodeDecode ==
  LET payload == TextEncode(lab.data)
  IN  /\ lab.pc # "encode"
           => /\ Len(lab.frame) = Len(payload) + 14
              /\ getInt32(lab.frame, 0) = Len(payload) + 10
              /\ 4 + getInt32(lab.frame, 0) = Len(lab.frame)
      /\ lab.pc = "done"
           => /\ dispatched = <<[id |-> getInt32(lab.id, 0), type |-> lab.type,
                                 payload |-> payload]>>
              /\ outstandingData = <<>>
              /\ transports[1].loop = "running"

\* A frame with a negative id, a type that fills all four bytes and a payload of
\* several bytes per character was built and decoded.
C3_Witness ==
  /\ lab.pc = "done"
  /\ lab.id = <<239, 190, 173, 222>>
  /\ lab.type = 16909060
  /\ lab.data = <<8364, 65>>
  /\ Len(dispatched) = 1
  /\ dispatched[1].payload = <<226, 130, 172, 65>>

\* A transport is live while it is open and its stream has not ended.
Live(t) == transports[t].state = "open" /\ transports[t].loop = "running"

\* C8: the client has at most one open transport: every live transport is its
\* current transport.
C8_OneOpenTransport == \A t \in DOMAIN transports : Live(t) => conn = t

\* connect() makes the authentication future and the transport together, so the
\* future of the call that opened transport t is promises[t].
ownPromise(c) == promises[calls[c].t]

\* C9: once the server has answered the AUTH packet of the connection a call
\* opened with a packet of id -1, that call, if it is still pending, comes to
\* nothing but the bad-password error, which the adapter answers with
\* statusCode 400.
C9_BadPasswordRejectsCall ==
  [][\A c \in Calls :
       (/\ calls[c].t # 0
        /\ transports[calls[c].t].authWritten = 1
        /\ ownPromise(c) = Rejected("BadRconPasswordException")
        /\ Outcome(c) = Pending
        /\ Outcome(c)' # Pending)
         => /\ Outcome(c)' = Rejected("BadRconPasswordException")
            /\ statusCode(Outcome(c)') = 400]_vars

\* C10: at every teardown of the client's connection (its transport reference
\* goes from a transport to none), the pending map is left empty, the caller of
\* every entry it held is rejected with a connection-closed error unless already
\* settled, and the authentication future is rejected if it was pending, so that
\* no caller awaiting it is left pending.
C10_TeardownRejects ==
  [][(conn # 0 /\ conn' = 0)
       => /\ requests' = NoRequests
          /\ \A x \in DOMAIN requests :
               sendPromise[requests[x].owner] = Pending
                 => /\ sendPromise'[requests[x].owner].s = "rejected"
                    /\ sendPromise'[requests[x].owner].e
                         \in {"RconConnectionClosedException", "read EOF"}
          /\ (authed # 0 /\ promises[authed] = Pending)
               => promises'[authed].s = "rejected"]_vars

\* C11: when the read loop of a transport ends, by end-of-stream or by an error
\* thrown in readChunk, while the client's transport is absent or another one,
\* the transport reference, the authentication slot, the pending map and every
\* future are left as they were.
C11_SupersededLoopEnd ==
  [][\A t \in DOMAIN transports :
       (/\ transports[t].loop = "running"
        /\ transports'[t].loop \in {"ended", "threw"}
        /\ conn # t)
         => /\ conn' = conn
            /\ authed' = authed
            /\ requests' = requests
            /\ promises' = promises
            /\ sendPromise' = sendPromise]_vars

\* The read loop of transport 1, closed by disconnect(), ended with an error
\* while transport 2 was the client's transport with a request pending on it.
C11_Witness ==
  /\ Len(transports) = 2
  /\ transports[1].state = "closed"
  /\ transports[1].loop = "threw"
  /\ conn = 2
  /\ authed = 2
  /\ promises[2] = Pending
  /\ \E x \in DOMAIN requests : sendPromise[requests[x].owner] = Pending

\* Call c has no step of its own left to take: it was not made, has returned, is
\* waiting for its response, or awaits an authentication future that is pending
\* and that the client no longer refers to, so that nothing can settle it.
Quiet(c) ==
  \/ calls[c].pc \in {"idle", "done", "waiting"}
  \/ /\ calls[c].pc = "awaitConnect"
     /\ calls[c].awaiting # 0
     /\ calls[c].awaiting # authed
     /\ promises[calls[c].awaiting] = Pending

\* C12: while the client holds no transport and no call has a step left to take,
\* no call that was made is pending and no entry is in the pending map: every
\* call whose connection was torn down has settled, one that was awaiting
\* connect() at the teardown included.
C12_NoCallLeftPending ==
  (conn = 0 /\ \A c \in Calls : Quiet(c))
    => /\ requests = NoRequests
       /\ \A c \in Calls : calls[c].pc # "idle" => Outcome(c) # Pending

\* C13: the call that opened a transport has its COMMAND packet written on that
\* transport only when the authentication future made with the transport has
\* been resolved by the auth-success packet.
C13_CommandAfterAuth ==
  [][\A c \in Calls :
       (/\ calls[c].pc = "cmdWrite"
        /\ calls'[c].pc = "sentinelWrite"
        /\ calls[c].t # 0
        /\ calls[c].wt = calls[c].t)
         => ownPromise(c).s = "resolved"]_vars

\* The step is the write of call c's command packet or sentinel packet failing.
WriteFailed(c) ==
  /\ calls[c].pc \in {"cmdWrite", "sentinelWrite"}
  /\ calls'[c].pc = "waiting"
  /\ calls'[c].err # ""

\* What C14 says of such a step: call c's future is rejected with the write
\* error, every other future is as it was, and so are the transport reference,
\* the authentication slot and its future, the pending map and the transports.
OnlyOwnFutureRejected(c) ==
  /\ sendPromise' = [sendPromise EXCEPT ![c] = settle(@, Rejected(calls'[c].err))]
  /\ conn' = conn
  /\ authed' = authed
  /\ promises' = promises
  /\ requests' = requests
  /\ transports' = transports

\* C14 as stated: a failure to write the command packet or the sentinel packet of
\* a call rejects only that call's future with the write error and changes
\* nothing else.
C14_WriteFailureAnyId ==
  [][\A c \in Calls : WriteFailed(c) => OnlyOwnFutureRejected(c)]_vars

\* C14, for a call whose id no other call has drawn: a failure to write its
\* command packet or its sentinel packet rejects only that call's future with
\* the write error; the transport reference, the authentication slot, the
\* pending map with every other request and its future are unchanged and no
\* transport is closed.
C14_WriteFailure ==
  [][\A c \in Calls :
       (WriteFailed(c) /\ \A d \in Calls \ {c} : calls[d].id # calls[c].id)
         => OnlyOwnFutureRejected(c)]_vars

\* The write of one call failed and rejected it while another call, under
\* another id, is still pending with its entry, on the transport still held.
C14_Witness ==
  \E c, d \in Calls :
    /\ c # d
    /\ calls[c].pc = "waiting" /\ calls[c].err = "BrokenPipe"
    /\ sendPromise[c] = Rejected("BrokenPipe")
    /\ calls[d].pc = "waiting" /\ calls[d].id # calls[c].id
    /\ sendPromise[d] = Pending
    /\ getInt32(calls[d].id, 0) \in DOMAIN requests
    /\ getInt32(calls[c].id, 0) \in DOMAIN requests
    /\ conn # 0 /\ transports[conn].state = "open"

\* The bytes of lab.stream the reader has yielded so far.
Received == slice(lab.stream, 0, Len(lab.stream) - Len(Flatten(lab.chunks)))

\* The number of bytes of the packets in log: 4 + length each.
RECURSIVE ConsumedBytes(_)
ConsumedBytes(log) ==
  IF Len(log) = 0 THEN 0 ELSE 14 + Len(Head(log).payload) + ConsumedBytes(Tail(log))

\* C15: after readChunk has returned from any chunk, the carry-over buffer holds
\* every byte received so far that is not part of a decoded packet, whether the
\* decoding stopped at a packet whose bytes are not all there or at a length
\* prefix of zero.
C15_NoByteLost ==
  transports[1].loop = "running"
    => outstandingData = sliceFrom(Received, ConsumedBytes(lab.log))

\* C16: with two calls outstanding on one transport under distinct ids, however
\* their fragments and sentinels are interleaved, the request of each id holds
\* the fragments of that id only, in arrival order, until its own sentinel is
\* dispatched, and its caller is then resolved with their concatenation; the
\* packets of the other id change neither.
C16_MultiplexedCallers ==
  Cardinality(DOMAIN lab.init) = MaxCalls
    => \A id \in DOMAIN lab.init : SentinelContract(id)

\* The same when neither id is -1.
MultiplexedCallersButMinusOne ==
  (Cardinality(DOMAIN lab.init) = MaxCalls /\ -1 \notin DOMAIN lab.init)
    => \A id \in DOMAIN lab.init : SentinelContract(id)

\* Two callers were resolved, each with its own fragments, the fragments of the
\* two ids having arrived interleaved.
MultiplexedReached ==
  /\ sendPromise[1] = Resolved(<<REPLACEMENT>>)
  /\ sendPromise[2] = Resolved(<<66>>)

\* C17: once disconnect() has returned the client holds no transport, and no
\* later step gives it one.
C17_ClosedIsTerminal ==
  [][nDisconnects > 0 => conn' = 0]_vars

\* A packet whose id is neither 0 nor -1 and is no key of the pending map.
UnknownId(p) == p.id \notin {0, -1} /\ p.id \notin DOMAIN requests

\* The client after the packets pkts are dispatched in order.
RECURSIVE dispatchAll(_, _)
dispatchAll(st, pkts) ==
  IF Len(pkts) = 0 THEN st
  ELSE dispatchAll(dispatch(st, Head(pkts).id, Head(pkts).type, Head(pkts).payload),
                   Tail(pkts))

\* C18: a read turn whose first packet has an id that is neither 0 nor -1 and
\* matches no entry of the pending map raises no error and leaves the client as
\* the packets that follow it in the chunk alone leave it: with none following,
\* the authentication slot, its future, the pending map and every caller's
\* future are unchanged.
C18_UnknownIdDropped ==
  [][(nSent' # nSent /\ dispatched' # <<>> /\ UnknownId(dispatched'[1]))
       => LET st == dispatchAll(Client, Tail(dispatched'))
          IN  /\ transports'[1].loop = "running"
              /\ conn' = conn
              /\ authed' = authed
              /\ promises' = st.promises
              /\ requests' = st.requests
              /\ sendPromise' = st.sendPromise
              /\ Len(dispatched') = 1
                   => /\ promises' = promises
                      /\ requests' = requests
                      /\ sendPromise' = sendPromise]_vars

\* A packet with the unknown id 3 was dropped while the authentication future was
\* pending, and the fragment that followed it in the chunk was decoded and added
\* to the request of id 1.
C18_Witness ==
  /\ Len(dispatched) = 2
  /\ dispatched[1].id = 3
  /\ dispatched[2].id = 1
  /\ promises[1] = Pending
  /\ 1 \in DOMAIN requests
  /\ requests[1].data = <<68>>
  /\ transports[1].loop = "running"

\* The packets of the well-formed streams the servers of Spec send.
ServerPackets ==
  {[id |-> 0, type |-> RESPONSE_AUTH, payload |-> <<>>],
   [id |-> -1, type |-> RESPONSE_AUTH, payload |-> <<>>]}
    \cup {[id |-> getInt32(id, 0), type |-> RESPONSE_VALUE, payload |-> FrameBuffer] :
            id \in IdBytes}

\* C19: the carry-over buffer holds bytes of the current transport only: when
\* the read loop of the client's transport is the only one running and is handed
\* a chunk, whatever was torn down before, every packet readChunk decodes is a
\* packet a server sent.
C19_CarryOverOfCurrentTransport ==
  [][(/\ nSent' # nSent
      /\ conn # 0
      /\ \A t \in DOMAIN transports : transports[t].loop = "running" => conn = t)
       => \A i \in 1..Len(dispatched') : dispatched'[i] \in ServerPackets]_vars

\* The same while the client has opened one transport only.
DecodedAsSentOnOneTransport ==
  Len(transports) <= 1 => \A i \in 1..Len(dispatched) : dispatched[i] \in ServerPackets

\* The rest of a cut packet arrived on the transport its start arrived on, and
\* the packet was decoded.
CutPacketDecoded ==
  /\ nSent = MaxChunks
  /\ Len(transports) = 1
  /\ dispatched = <<[id |-> 0, type |-> RESPONSE_AUTH, payload |-> <<>>]>>
  /\ promises[1] = Resolved(<<>>)

\* Transport 1 was torn down at the end of its stream with the start of a packet
\* carried over, a call then opened transport 2, and the auth-success packet of
\* its server was decoded as another packet: the authentication future of
\* transport 2 is still pending.
StaleCarryOverDecoded ==
  /\ Len(transports) = 2
  /\ promises[1] = Rejected("RconConnectionClosedException")
  /\ conn = 2
  /\ transports[2].loop = "running"
  /\ promises[2] = Pending
  /\ dispatched = <<[id |-> 0, type |-> 10, payload |-> <<>>]>>

\* The run is that of one request to home(): a client on which sendCmd is called
\* once and disconnect() by no one.
OneRequest == calls[2].pc = "idle" /\ nDisconnects = 0

\* C20: once home() has its response (the sendCmd call it awaits has settled),
\* the transport the client opened for it is not left open with its read loop
\* running.
C20_TransportClosedAfterResponse ==
  (OneRequest /\ calls[1].t # 0 /\ Outcome(1) # Pending) => ~Live(calls[1].t)

\* home() answered with statusCode 200 and the transport is open, its read loop
\* running.
ResponseSentTransportOpen ==
  /\ OneRequest
  /\ Outcome(1).s = "resolved"
  /\ statusCode(Outcome(1)) = 200
  /\ conn = 1
  /\ Live(1)

====
